---- MODULE Spec2Model ----
(***************************************************************************)
(* Model of the vectorx justification indexer (src/bin/indexer.rs) and of  *)
(* the authority-set commitment check of the plonky2x circuits             *)
(* (src/circuits-plonky2x/src/builder/justification.rs).                   *)
(***************************************************************************)
EXTENDS Integers, Sequences, FiniteSets, TLC

\* ------------------------------------------------------------- bounds ----
\* Number of justifications the upstream subscription delivers before it ends.
MaxEvents == 2
\* Longest commit.precommits list of a received justification.
MaxPrecommits == 2
\* Largest authority set the chain-state reader returns.
MaxAuthorities == 3
\* MAX_NUM_AUTHORITIES, the capacity the commitment circuit is built for.
MaxNumAuthorities == 3

\* ---------------------------------------------------- program constants --
BLOCK_SAVE_INTERVAL == 90

\* A u32 is kept as two 16-bit limbs where it can leave the range of header numbers.
Limb == 2 ^ 16

\* ------------------------------------------------------------ universes --
Keys == {"A", "B", "C"}
Hashes == {"h1", "h2"}
BlockNumbers == {0, 89, 90}
Rounds == {1}
SetIds == {7}

\* A SCALE-encoded (SignerMessage::PrecommitMessage(precommit), round, set_id):
\* the encoding is a fixed-width concatenation, so the tuple determines it.
EncodeMessage(precommit, round, authority_set_id) ==
    <<"PrecommitMessage", precommit, round, authority_set_id>>

\* An ed25519 signature is the result of signing `msg` with the secret of `by`;
\* `nonce` tells apart two different valid signatures of the same signer.
Sign(by, msg, nonce) == [by |-> by, msg |-> msg, nonce |-> nonce]

\* plonky2x's DUMMY_SIGNATURE: a fixed signature of a dummy key on a dummy message.
DUMMY_SIGNATURE == Sign("DUMMY_PUBLIC_KEY", <<"DUMMY_MSG">>, 0)

\* <ed25519::Pair as Pair>::verify(signature, message, public)
verify(signature, message, id) == signature.by = id /\ signature.msg = message

\* ------------------------------------------------------ handler locals ---
\* let signed_message = Encode::encode(&(PrecommitMessage(precommits[0].precommit), round, set_id))
\* (Rust index 0 is TLA+ index 1; the caller guarantees a non-empty list.)
signed_message(justification, authority_set_id) ==
    EncodeMessage(justification.commit.precommits[1].precommit,
                  justification.round, authority_set_id)

\* let validators = precommits.iter().filter_map(|p| verify(..).then(|| (id, signature))).collect()
validators(justification, message) ==
    SelectSeq(justification.commit.precommits,
              LAMBDA precommit : verify(precommit.signature, message, precommit.id))

\* let pubkeys = validators.iter().map(|v| v.0.clone()).collect()
pubkeys(vals) == [i \in 1..Len(vals) |-> vals[i].id]

\* let signatures = validators.iter().map(|v| v.1.clone()).collect()
signatures(vals) == [i \in 1..Len(vals) |-> vals[i].signature]

LastIndex(keys, k) == CHOOSE i \in 1..Len(keys) :
    keys[i] = k /\ \A j \in 1..Len(keys) : keys[j] = k => j <= i
FirstIndex(keys, k) == CHOOSE i \in 1..Len(keys) :
    keys[i] = k /\ \A j \in 1..Len(keys) : keys[j] = k => j >= i

\* for (pubkey, signature) in pubkeys.zip(signatures) { map.insert(pubkey, signature) }
\* HashMap::insert overwrites, so the last pair of a key stays.
pubkey_to_signature_mut_first(keys, sigs) ==
    [k \in {keys[i] : i \in 1..Len(keys)} |-> sigs[FirstIndex(keys, k)]]
pubkey_to_signature(keys, sigs) ==
    [k \in {keys[i] : i \in 1..Len(keys)} |-> sigs[LastIndex(keys, k)]]

\* if justification.commit.target_number % BLOCK_SAVE_INTERVAL as u32 != 0 { continue; }
cadence_skip(justification) ==
    justification.commit.target_number % BLOCK_SAVE_INTERVAL # 0

\* if header_hash != calculated_hash { continue; }
\* header_hash = header.hash(), calculated_hash = blake2_256(header.encode());
\* block_hash = justification.commit.target_hash is not part of the comparison.
header_mismatch(block_hash, header_hash, calculated_hash) ==
    header_hash # calculated_hash

\* if 3 * pubkeys.len() < num_authorities * 2 { continue; }
quorum_skip(keys, num_authorities) ==
    3 * Len(keys) < num_authorities * 2

\* for authority_pubkey in authorities.iter() { ... push ... }
justification_pubkeys_mut_signers_only(authorities, map) ==
    SelectSeq(authorities, LAMBDA a : a \in DOMAIN map)
justification_pubkeys(authorities, map) ==
    [i \in 1..Len(authorities) |-> authorities[i]]

justification_signatures(authorities, map) ==
    [i \in 1..Len(authorities) |->
        IF authorities[i] \in DOMAIN map THEN map[authorities[i]] ELSE DUMMY_SIGNATURE]

validator_signed(authorities, map) ==
    [i \in 1..Len(authorities) |-> authorities[i] \in DOMAIN map]

\* let store_justification_data = StoredJustificationData { ... }
store_justification_data(header, message, authorities, map) ==
    [block_number     |-> header.number,
     signed_message   |-> message,
     pubkeys          |-> justification_pubkeys(authorities, map),
     signatures       |-> justification_signatures(authorities, map),
     num_authorities  |-> Len(authorities),
     validator_signed |-> validator_signed(authorities, map)]

\* ------------------------------------------------------------- inputs ----
SeqsUpTo(S, n) == UNION {[1..k -> S] : k \in 0..n}

InjectiveSeqsUpTo(S, n) ==
    {s \in SeqsUpTo(S, n) : \A i, j \in 1..Len(s) : s[i] = s[j] => i = j}

\* The precommit every vote of a commit is for, and the message honest voters sign.
PrecommitOf(hash, number) == [target_hash |-> hash, target_number |-> number]
HonestMessage(hash, number, round) ==
    EncodeMessage(PrecommitOf(hash, number), round, CHOOSE s \in SetIds : TRUE)

\* The signatures a SignedPrecommit of signer `id` may carry: two different valid
\* ones, and one made for another round (which does not verify).
SignaturesOf(id, hash, number, round) ==
    {Sign(id, HonestMessage(hash, number, round), 1),
     Sign(id, HonestMessage(hash, number, round), 2),
     Sign(id, HonestMessage(hash, number, round + 1), 1)}

SignedPrecommits(hash, number, round) ==
    UNION {{[precommit |-> PrecommitOf(hash, number), signature |-> s, id |-> k] :
                s \in SignaturesOf(k, hash, number, round)} : k \in Keys}

JustificationsWith(hash, number, round, lists) ==
    {[round |-> round,
      commit |-> [target_hash |-> hash, target_number |-> number, precommits |-> ps]] :
        ps \in lists}

\* Every justification with at most MaxPrecommits precommits.
AllJustifications ==
    UNION {JustificationsWith(h, n, r, SeqsUpTo(SignedPrecommits(h, n, r), MaxPrecommits)) :
             <<h, n, r>> \in Hashes \X BlockNumbers \X Rounds}

\* Every ordered authority set of at most MaxAuthorities distinct keys.
AllAuthoritySets == InjectiveSeqsUpTo(Keys, MaxAuthorities)

\* The justifications of a long-running stream: no vote, one vote, two voters,
\* one voter twice.
Vote(h, n, r, k, nonce) ==
    [precommit |-> PrecommitOf(h, n), signature |-> Sign(k, HonestMessage(h, n, r), nonce),
     id |-> k]
StreamPrecommitLists(h, n, r) ==
    {<<>>,
     <<Vote(h, n, r, "A", 1)>>,
     <<Vote(h, n, r, "A", 1), Vote(h, n, r, "C", 1)>>,
     <<Vote(h, n, r, "A", 1), Vote(h, n, r, "A", 2)>>}
StreamJustifications ==
    UNION {JustificationsWith(h, n, r, StreamPrecommitLists(h, n, r)) :
             <<h, n, r>> \in Hashes \X BlockNumbers \X Rounds}
StreamAuthoritySets == {<<"A", "B", "C">>}

\* What c.rpc().header(Some(hash)) can answer: a header, with the value of
\* header.hash() and the blake2_256 of its encoding.
Headers == [number : BlockNumbers, hash : Hashes, encoded_hash : Hashes]

\* -------------------------------------------------------------- state ----
VARIABLES
    pc,         \* "waiting" in sub.next().await, "done" after the loop, "panicked"
    remaining,  \* justifications the upstream stream still delivers
    store,      \* the records handed to r.add_justification, in order
    log,        \* the target numbers of the debug!("New justification ...") lines
    last,       \* the locals of the latest loop iteration and the exit it took
    circuit,    \* the inputs of one commitment check and, once proved, its verdict
    bridge      \* one verify_simple_justification: request, hint, output stream, verdict

vars == <<pc, remaining, store, log, last, circuit, bridge>>

\* Locals are kept as sequences of length 0 (not yet bound) or 1.
Iteration(outcome, justification, header, set_id, authorities_at, authorities) ==
    [outcome |-> outcome, justification |-> justification, header |-> header,
     authority_set_id |-> set_id, authorities_at |-> authorities_at,
     authorities |-> authorities]

NoIteration == Iteration("none", <<>>, <<>>, <<>>, <<>>, <<>>)

\* No commitment circuit is being proved.
NoCircuit == [phase |-> "none"]

\* No justification is being verified in a circuit.
NoBridge == [phase |-> "none"]

InitWith(n) ==
    /\ pc = "waiting"
    /\ remaining = n
    /\ store = <<>>
    /\ log = <<>>
    /\ last = NoIteration
    /\ circuit = NoCircuit
    /\ bridge = NoBridge

Init == InitWith(MaxEvents)

\* ------------------------------------------------------------ actions ----
\* while let Some(Ok(justification)) = sub.next().await: the stream yields nothing
\* (or an error item) and the loop, then main, ends.
StreamEnd ==
    /\ pc = "waiting"
    /\ pc' = "done"
    /\ UNCHANGED <<remaining, store, log, last, circuit, bridge>>

\* `continue`: the loop goes back to sub.next().await.
continue_mut_break == "done"
continue == "waiting"

\* sub.next().await yields Some(Ok(justification)).
Receiving == pc = "waiting" /\ remaining > 0
Received(j) == remaining' = remaining - 1 /\ UNCHANGED <<circuit, bridge>>

\* The debug!("New justification from block {}") of an event that is due.
Logged_mut_silent(j) == log' = log
Logged(j) == log' = Append(log, j.commit.target_number)

\* header.number - 1 on u32, as <<high limb, low limb>>: a build without overflow
\* checks wraps 0 - 1 to u32::MAX.
previous_block(header) ==
    LET borrow == IF header.number % Limb = 0 THEN 1 ELSE 0
    IN  <<((header.number \div Limb) - borrow) % Limb, (header.number - 1) % Limb>>

\* Lines 126-128: the event is not due.
CadenceSkipOf(J) ==
    /\ Receiving
    /\ \E j \in J :
        /\ cadence_skip(j)
        /\ Received(j)
        /\ pc' = continue
        /\ last' = Iteration("cadence_skip", <<j>>, <<>>, <<>>, <<>>, <<>>)
        /\ UNCHANGED <<store, log>>

\* Lines 139-144: the header RPC fails or knows no such header; unwrap panics.
HeaderFetchPanicOf(J) ==
    /\ Receiving
    /\ \E j \in J :
        /\ ~cadence_skip(j)
        /\ Received(j)
        /\ Logged(j)
        /\ pc' = "panicked"
        /\ last' = Iteration("panic_header_fetch", <<j>>, <<>>, <<>>, <<>>, <<>>)
        /\ UNCHANGED store

\* Lines 147-152: the two hashes of the fetched header differ.
HeaderMismatchOf(J) ==
    /\ Receiving
    /\ \E j \in J :
        /\ ~cadence_skip(j)
        /\ \E header \in Headers :
            /\ header_mismatch(j.commit.target_hash, header.hash, header.encoded_hash)
            /\ Received(j)
            /\ Logged(j)
            /\ pc' = continue
            /\ last' = Iteration("header_mismatch", <<j>>, <<header>>, <<>>, <<>>, <<>>)
            /\ UNCHANGED store

\* Lines 155-162: the storage read of the current set id fails; unwrap panics.
SetIdFetchPanicOf(J) ==
    /\ Receiving
    /\ \E j \in J :
        /\ ~cadence_skip(j)
        /\ \E header \in Headers :
            /\ ~header_mismatch(j.commit.target_hash, header.hash, header.encoded_hash)
            /\ Received(j)
            /\ Logged(j)
            /\ pc' = "panicked"
            /\ last' = Iteration("panic_set_id_fetch", <<j>>, <<header>>, <<>>, <<>>,
                                 <<>>)
            /\ UNCHANGED store

\* Line 166: precommits[0] of an empty list is an out-of-bounds index; main panics.
EmptyPrecommitsPanicOf(J) ==
    /\ Receiving
    /\ \E j \in J :
        /\ ~cadence_skip(j)
        /\ Len(j.commit.precommits) = 0
        /\ \E header \in Headers, set_id \in SetIds :
            /\ ~header_mismatch(j.commit.target_hash, header.hash, header.encoded_hash)
            /\ Received(j)
            /\ Logged(j)
            /\ pc' = "panicked"
            /\ last' = Iteration("panic_empty_precommits", <<j>>, <<header>>,
                                 <<set_id>>, <<>>, <<>>)
            /\ UNCHANGED store

\* Line 205: header.number - 1 with header.number = 0 in a build with overflow
\* checks panics ("attempt to subtract with overflow").
SubtractOverflowPanicOf(J) ==
    /\ Receiving
    /\ \E j \in J :
        /\ ~cadence_skip(j)
        /\ Len(j.commit.precommits) > 0
        /\ \E header \in Headers, set_id \in SetIds :
            /\ ~header_mismatch(j.commit.target_hash, header.hash, header.encoded_hash)
            /\ header.number = 0
            /\ Received(j)
            /\ Logged(j)
            /\ pc' = "panicked"
            /\ last' = Iteration("panic_subtract_overflow", <<j>>, <<header>>,
                                 <<set_id>>, <<>>, <<>>)
            /\ UNCHANGED store

\* Lines 205-209: fewer than 2/3 of the authorities: the event is skipped.
QuorumSkipOf(J, A) ==
    /\ Receiving
    /\ \E j \in J :
        /\ ~cadence_skip(j)
        /\ Len(j.commit.precommits) > 0
        /\ \E header \in Headers, set_id \in SetIds :
            /\ ~header_mismatch(j.commit.target_hash, header.hash, header.encoded_hash)
            /\ \E authorities \in A :
                /\ LET vals == validators(j, signed_message(j, set_id))
                   IN  quorum_skip(pubkeys(vals), Len(authorities))
                /\ Received(j)
                /\ Logged(j)
                /\ pc' = continue
                /\ last' = Iteration("quorum_skip", <<j>>, <<header>>, <<set_id>>,
                                     <<previous_block(header)>>, <<authorities>>)
                /\ UNCHANGED store

\* Lines 211-236: the record is built and handed to the store.
PersistOf(J, A) ==
    /\ Receiving
    /\ \E j \in J :
        /\ ~cadence_skip(j)
        /\ Len(j.commit.precommits) > 0
        /\ \E header \in Headers, set_id \in SetIds :
            /\ ~header_mismatch(j.commit.target_hash, header.hash, header.encoded_hash)
            /\ \E authorities \in A :
                LET message == signed_message(j, set_id)
                    vals    == validators(j, message)
                    map     == pubkey_to_signature(pubkeys(vals), signatures(vals))
                IN  /\ ~quorum_skip(pubkeys(vals), Len(authorities))
                    /\ Received(j)
                    /\ Logged(j)
                    /\ store' = Append(store,
                           store_justification_data(header, message, authorities, map))
                    /\ last' = Iteration("persisted", <<j>>, <<header>>, <<set_id>>,
                                         <<previous_block(header)>>, <<authorities>>)
                    /\ UNCHANGED pc

\* ----------------------------------------------------- specifications ----
\* The indexer on a stream of MaxEvents justifications.
CadenceSkip == CadenceSkipOf(StreamJustifications)
HeaderFetchPanic == HeaderFetchPanicOf(StreamJustifications)
HeaderMismatch == HeaderMismatchOf(StreamJustifications)
SetIdFetchPanic == SetIdFetchPanicOf(StreamJustifications)
EmptyPrecommitsPanic == EmptyPrecommitsPanicOf(StreamJustifications)
SubtractOverflowPanic == SubtractOverflowPanicOf(StreamJustifications)
QuorumSkip == QuorumSkipOf(StreamJustifications, StreamAuthoritySets)
Persist == PersistOf(StreamJustifications, StreamAuthoritySets)

Next ==
    \/ StreamEnd
    \/ CadenceSkip
    \/ HeaderFetchPanic
    \/ HeaderMismatch
    \/ SetIdFetchPanic
    \/ EmptyPrecommitsPanic
    \/ SubtractOverflowPanic
    \/ QuorumSkip
    \/ Persist

Spec == Init /\ [][Next]_vars

\* The indexer on one justification, drawn from every justification and every
\* authority set within the bounds.
InitEvent == InitWith(1)

CadenceSkipAny == CadenceSkipOf(AllJustifications)
HeaderFetchPanicAny == HeaderFetchPanicOf(AllJustifications)
HeaderMismatchAny == HeaderMismatchOf(AllJustifications)
SetIdFetchPanicAny == SetIdFetchPanicOf(AllJustifications)
EmptyPrecommitsPanicAny == EmptyPrecommitsPanicOf(AllJustifications)
SubtractOverflowPanicAny == SubtractOverflowPanicOf(AllJustifications)
QuorumSkipAny == QuorumSkipOf(AllJustifications, AllAuthoritySets)
PersistAny == PersistOf(AllJustifications, AllAuthoritySets)

NextEvent ==
    \/ StreamEnd
    \/ CadenceSkipAny
    \/ HeaderFetchPanicAny
    \/ HeaderMismatchAny
    \/ SetIdFetchPanicAny
    \/ EmptyPrecommitsPanicAny
    \/ SubtractOverflowPanicAny
    \/ QuorumSkipAny
    \/ PersistAny

SpecEvent == InitEvent /\ [][NextEvent]_vars

\* ------------------------------------- authority-set commitment circuit --
\* self.curta_sha256(bytes): SHA-256, taken as collision-free.
curta_sha256(input) == <<"sha256", input>>

\* for i in 1..MAX_NUM_AUTHORITIES { ... }: one iteration per call, carrying
\* authority_enabled and commitment_so_far. Rust index i is TLA+ index i + 1.
RECURSIVE commitment_loop(_, _, _, _, _)
commitment_loop(i, num_active_authorities, authority_set_signers, authority_enabled, commitment_so_far) ==
    IF i >= Len(authority_set_signers)
    THEN commitment_so_far
    ELSE LET at_end       == i = num_active_authorities
             not_at_end   == ~at_end
             enabled      == authority_enabled /\ not_at_end
             chained_hash == curta_sha256(<<commitment_so_far,
                                            authority_set_signers[i + 1]>>)
         IN  commitment_loop(i + 1, num_active_authorities, authority_set_signers,
                             enabled,
                             IF enabled THEN chained_hash ELSE commitment_so_far)

\* verify_authority_set_commitment: TRUE when assert_is_equal is satisfied.
verify_authority_set_commitment(num_active_authorities, authority_set_commitment, authority_set_signers) ==
    authority_set_commitment =
        commitment_loop(1, num_active_authorities, authority_set_signers, TRUE,
                        curta_sha256(<<authority_set_signers[1]>>))

\* The digests offered to the circuit: the chained hash of every key list.
RECURSIVE KeyChain(_)
KeyChain(keys) ==
    IF Len(keys) = 1
    THEN curta_sha256(<<keys[1]>>)
    ELSE curta_sha256(<<KeyChain(SubSeq(keys, 1, Len(keys) - 1)), keys[Len(keys)]>>)

Digests == {KeyChain(keys) : keys \in SeqsUpTo(Keys, MaxNumAuthorities) \ {<<>>}}

\* The circuit is built for MaxNumAuthorities slots and given its inputs.
InitCommit ==
    /\ pc = "done"
    /\ remaining = 0
    /\ store = <<>>
    /\ log = <<>>
    /\ last = NoIteration
    /\ circuit \in [phase : {"built"},
                    num_active_authorities : 0..MaxNumAuthorities,
                    authority_set_commitment : Digests,
                    authority_set_signers : [1..MaxNumAuthorities -> Keys]]
    /\ bridge = NoBridge

\* The prover runs the circuit: the proof exists when the assertion holds.
Prove ==
    /\ circuit.phase = "built"
    /\ circuit' = [circuit EXCEPT
           !.phase = IF verify_authority_set_commitment(
                          circuit.num_active_authorities,
                          circuit.authority_set_commitment,
                          circuit.authority_set_signers)
                     THEN "accepted" ELSE "rejected"]
    /\ UNCHANGED <<pc, remaining, store, log, last, bridge>>

NextCommit == Prove

SpecCommit == InitCommit /\ [][NextCommit]_vars

\* ------------------------------------ justification bridge and circuit --
\* crate::consts::ENCODED_PRECOMMIT_LENGTH: 1 + 32 + 4 + 8 + 8 bytes.
ENCODED_PRECOMMIT_LENGTH == 53

\* The byte length of a message: a full encoding has the tag, the hash, the
\* number, the round and the set id; a cut-off one is shorter.
EncodedLength(message) ==
    IF Len(message) = 4 THEN 1 + 32 + 4 + 8 + 8 ELSE Len(message)

TruncatedMessage == <<"PrecommitMessage">>

\* 64 bytes whose first half is no compressed curve point, or whose scalar is 0.
NotOnCurveSignature == Sign("NOT_ON_CURVE", <<"R">>, 1)
ZeroScalarSignature == Sign("ZERO_SCALAR", <<"s">>, 1)

\* signature_to_value_type returns (it does not hit assert!(sig_r.is_valid()) nor
\* the panic on a scalar of 0 limbs).
signature_to_value_type_returns(sig_bytes) ==
    /\ sig_bytes # NotOnCurveSignature
    /\ sig_bytes # ZeroScalarSignature

\* An ed25519 public key as a curve point, and AffinePoint::compress_point.
Point(key) == [point |-> key]
compress_point(pubkey) == pubkey.point

\* if justification_data.authority_set_id != authority_set_id { panic!(..) }
authority_set_id_mismatch_mut_unchecked(justification_data, authority_set_id) == FALSE
authority_set_id_mismatch(justification_data, authority_set_id) ==
    justification_data.authority_set_id # authority_set_id

\* if encoded_precommit.len() != ENCODED_PRECOMMIT_LENGTH { panic!(..) }
precommit_length_mismatch(encoded_precommit) ==
    EncodedLength(encoded_precommit) # ENCODED_PRECOMMIT_LENGTH

\* The triple handed to verify_signature: pubkeys[0], the message, signatures[0].
spot_check_triple(justification_data) ==
    <<compress_point(justification_data.pubkeys[1]), justification_data.signed_message,
      justification_data.signatures[1]>>

\* crate::input::verify_signature returns (it panics on a signature that does
\* not verify).
verify_signature_returns(pubkey, message, signature) ==
    verify(signature, message, pubkey)

\* The values written to the output stream, in order; the signatures are
\* converted while the third value is built.
written_before_signatures(justification_data) ==
    <<justification_data.signed_message, justification_data.validator_signed>>
written_by_hint(justification_data) ==
    <<justification_data.signed_message, justification_data.validator_signed,
      justification_data.signatures, justification_data.pubkeys,
      justification_data.num_authorities>>

\* conditional_batch_eddsa_verify: every flagged signature verifies.
conditional_batch_eddsa_verify(is_active, message, sigs, keys) ==
    \A i \in 1..Len(keys) :
        is_active[i] => verify(sigs[i], message, compress_point(keys[i]))

\* The constraints of verify_simple_justification on the values read from the
\* output stream: the commitment of the compressed pubkeys, then the batch
\* verification. block_number, _block_hash and authority_set_id are in no constraint.
verify_simple_justification(block_number, block_hash, authority_set_id, authority_set_hash, output_stream) ==
    LET encoded_precommit      == output_stream[1]
        is_signed              == output_stream[2]
        sigs                   == output_stream[3]
        keys                   == output_stream[4]
        num_active_authorities == output_stream[5]
        compressed_pubkeys     == [i \in 1..Len(keys) |-> compress_point(keys[i])]
    IN  /\ verify_authority_set_commitment(num_active_authorities, authority_set_hash,
                                           compressed_pubkeys)
        /\ conditional_batch_eddsa_verify(is_signed, encoded_precommit, sigs, keys)

\* ---- inputs of the bridge ----
BridgeKeys == {"A", "B"}
OtherSetId == 8
BridgeSetIds == SetIds \cup {OtherSetId}
Slots == 1..MaxNumAuthorities

\* The circuit's public inputs.
Requests ==
    [block_number : {BLOCK_SAVE_INTERVAL}, block_hash : {"h1"}, authority_set_id : SetIds,
     authority_set_hash : {KeyChain(<<"A">>), KeyChain(<<"A", "B">>)}]

\* The messages a response may carry: the one for the requested block, one for
\* another block, one for another authority set id, and a cut-off one.
RequestedMessage(request) ==
    EncodeMessage(PrecommitOf(request.block_hash, request.block_number), 1,
                  request.authority_set_id)
ResponseMessages(request) ==
    {RequestedMessage(request),
     EncodeMessage(PrecommitOf("h2", request.block_number), 1, request.authority_set_id),
     EncodeMessage(PrecommitOf(request.block_hash, request.block_number), 1, OtherSetId),
     TruncatedMessage}

\* What one slot of a response may hold for key k and message m: flag and signature.
SlotChoices == 1..5
SlotFlag(choice) == choice \in {1, 2}
SlotSignature(choice, k, m) ==
    CASE choice = 1 -> Sign(k, m, 1)
      [] choice = 2 -> Sign(k, <<"other message">>, 1)
      [] choice = 3 -> DUMMY_SIGNATURE
      [] choice = 4 -> Sign(k, m, 1)
      [] choice = 5 -> NotOnCurveSignature

\* SimpleJustificationData as get_simple_justification::<NUM_AUTHORITIES> returns it.
SimpleJustificationData(set_id, message, keys, choices, num_authorities) ==
    [authority_set_id |-> set_id,
     signed_message   |-> message,
     validator_signed |-> [i \in Slots |-> SlotFlag(choices[i])],
     signatures       |-> [i \in Slots |-> SlotSignature(choices[i], keys[i], message)],
     pubkeys          |-> [i \in Slots |-> Point(keys[i])],
     num_authorities  |-> num_authorities]

Bridge(phase, request, response, checked, output_stream) ==
    [phase |-> phase, request |-> request, response |-> response, checked |-> checked,
     output_stream |-> output_stream]

\* verify_simple_justification is called with its four inputs.
InitBridge ==
    /\ pc = "done"
    /\ remaining = 0
    /\ store = <<>>
    /\ log = <<>>
    /\ last = NoIteration
    /\ circuit = NoCircuit
    /\ \E request \in Requests : bridge = Bridge("requested", request, <<>>, {}, <<>>)

\* HintSimpleJustification::hint is modelled by one action per way out; `data`
\* is what the data fetcher answers.
\* Lines 63-65.
SetIdPanicExit(data) ==
    /\ authority_set_id_mismatch(data, bridge.request.authority_set_id)
    /\ bridge' = Bridge("hint_panicked", bridge.request, <<data>>, {}, <<>>)

\* Lines 67-70.
LengthPanicExit(data) ==
    /\ ~authority_set_id_mismatch(data, bridge.request.authority_set_id)
    /\ precommit_length_mismatch(data.signed_message)
    /\ bridge' = Bridge("hint_panicked", bridge.request, <<data>>, {}, <<>>)

\* Lines 72-76.
SignaturePanicExit(data) ==
    /\ ~authority_set_id_mismatch(data, bridge.request.authority_set_id)
    /\ ~precommit_length_mismatch(data.signed_message)
    /\ LET triple == spot_check_triple(data)
       IN  /\ ~verify_signature_returns(triple[1], triple[2], triple[3])
           /\ bridge' = Bridge("hint_panicked", bridge.request, <<data>>, {triple}, <<>>)

\* Lines 78-90: the message and the flags are written, then a signature fails to
\* convert and signature_to_value_type panics.
DecodePanicExit(data) ==
    /\ ~authority_set_id_mismatch(data, bridge.request.authority_set_id)
    /\ ~precommit_length_mismatch(data.signed_message)
    /\ LET triple == spot_check_triple(data)
       IN  /\ verify_signature_returns(triple[1], triple[2], triple[3])
           /\ \E i \in Slots : ~signature_to_value_type_returns(data.signatures[i])
           /\ bridge' = Bridge("hint_panicked", bridge.request, <<data>>, {triple},
                               written_before_signatures(data))

\* Lines 78-96: the five values are written.
WrittenExit(data) ==
    /\ ~authority_set_id_mismatch(data, bridge.request.authority_set_id)
    /\ ~precommit_length_mismatch(data.signed_message)
    /\ LET triple == spot_check_triple(data)
       IN  /\ verify_signature_returns(triple[1], triple[2], triple[3])
           /\ \A i \in Slots : signature_to_value_type_returns(data.signatures[i])
           /\ bridge' = Bridge("hint_done", bridge.request, <<data>>, {triple},
                               written_by_hint(data))

\* hint on a response with another authority set id.
HintSetIdPanic ==
    /\ bridge.phase = "requested"
    /\ \E set_id \in BridgeSetIds, message \in ResponseMessages(bridge.request),
          num_authorities \in 0..MaxNumAuthorities :
         \E keys \in [Slots -> BridgeKeys], choices \in [Slots -> SlotChoices] :
            SetIdPanicExit(SimpleJustificationData(set_id, message, keys, choices, num_authorities))
    /\ UNCHANGED <<pc, remaining, store, log, last, circuit>>

\* hint on a response whose message has another length.
HintLengthPanic ==
    /\ bridge.phase = "requested"
    /\ \E set_id \in BridgeSetIds, message \in ResponseMessages(bridge.request),
          num_authorities \in 0..MaxNumAuthorities :
         \E keys \in [Slots -> BridgeKeys], choices \in [Slots -> SlotChoices] :
            LengthPanicExit(SimpleJustificationData(set_id, message, keys, choices, num_authorities))
    /\ UNCHANGED <<pc, remaining, store, log, last, circuit>>

\* hint on a response whose first signature does not verify.
HintSignaturePanic ==
    /\ bridge.phase = "requested"
    /\ \E set_id \in BridgeSetIds, message \in ResponseMessages(bridge.request),
          num_authorities \in 0..MaxNumAuthorities :
         \E keys \in [Slots -> BridgeKeys], choices \in [Slots -> SlotChoices] :
            SignaturePanicExit(SimpleJustificationData(set_id, message, keys, choices, num_authorities))
    /\ UNCHANGED <<pc, remaining, store, log, last, circuit>>

\* hint on a response with a signature that does not convert.
HintDecodePanic ==
    /\ bridge.phase = "requested"
    /\ \E set_id \in BridgeSetIds, message \in ResponseMessages(bridge.request),
          num_authorities \in 0..MaxNumAuthorities :
         \E keys \in [Slots -> BridgeKeys], choices \in [Slots -> SlotChoices] :
            DecodePanicExit(SimpleJustificationData(set_id, message, keys, choices, num_authorities))
    /\ UNCHANGED <<pc, remaining, store, log, last, circuit>>

\* hint on a response that passes every step.
HintWritten ==
    /\ bridge.phase = "requested"
    /\ \E set_id \in BridgeSetIds, message \in ResponseMessages(bridge.request),
          num_authorities \in 0..MaxNumAuthorities :
         \E keys \in [Slots -> BridgeKeys], choices \in [Slots -> SlotChoices] :
            WrittenExit(SimpleJustificationData(set_id, message, keys, choices, num_authorities))
    /\ UNCHANGED <<pc, remaining, store, log, last, circuit>>

\* The circuit reads the five values and its constraints are checked.
ProveJustification ==
    /\ bridge.phase = "hint_done"
    /\ bridge' = [bridge EXCEPT
           !.phase = IF verify_simple_justification(
                          bridge.request.block_number, bridge.request.block_hash,
                          bridge.request.authority_set_id,
                          bridge.request.authority_set_hash, bridge.output_stream)
                     THEN "accepted" ELSE "rejected"]
    /\ UNCHANGED <<pc, remaining, store, log, last, circuit>>

NextBridge ==
    \/ HintSetIdPanic
    \/ HintLengthPanic
    \/ HintSignaturePanic
    \/ HintDecodePanic
    \/ HintWritten
    \/ ProveJustification

SpecBridge == InitBridge /\ [][NextBridge]_vars

\* ===================================================== claims: indexer ====
Skips == {"cadence_skip", "header_mismatch", "quorum_skip"}
ErrorDrops == {"header_mismatch", "quorum_skip"}

\* The locals of the latest iteration, where the iteration has bound them.
LastJustification == last.justification[1]
LastHeader == last.header[1]
LastAuthorities == last.authorities[1]
LastMessage == signed_message(LastJustification, last.authority_set_id[1])
LastRecord == store[Len(store)]

\* The positions of the precommits of `key` whose signature verifies against `message`.
ValidVotesOf(justification, message, key) ==
    {i \in 1..Len(justification.commit.precommits) :
        /\ justification.commit.precommits[i].id = key
        /\ verify(justification.commit.precommits[i].signature, message, key)}

\* The distinct signer keys with a signature that verifies.
DistinctValidSigners(justification, message) ==
    {k \in {justification.commit.precommits[i].id :
                i \in 1..Len(justification.commit.precommits)} :
        ValidVotesOf(justification, message, k) # {}}

Greatest(S) == CHOOSE x \in S : \A y \in S : y <= x

\* C1: for a justification past the cadence and header checks, a record is
\* persisted if and only if 3 * n >= 2 * N, with n the number of DISTINCT signer
\* keys whose signature verifies and N the size of the fetched authority set.
C1_QuorumByDistinctSigners ==
    last.outcome \in {"quorum_skip", "persisted"} =>
        LET n == Cardinality(DistinctValidSigners(LastJustification, LastMessage))
            N == Len(LastAuthorities)
        IN  (last.outcome = "persisted") <=> (3 * n >= 2 * N)

\* C2: every record handed to the store has pubkeys, signatures and
\* validator_signed of length num_authorities = the size of the fetched authority
\* set, and pubkeys[i] is the i-th authority key in authority-set order.
C2_RecordShape ==
    last.outcome = "persisted" =>
        /\ LastRecord.num_authorities = Len(LastAuthorities)
        /\ Len(LastRecord.pubkeys) = LastRecord.num_authorities
        /\ Len(LastRecord.signatures) = LastRecord.num_authorities
        /\ Len(LastRecord.validator_signed) = LastRecord.num_authorities
        /\ \A i \in 1..Len(LastAuthorities) : LastRecord.pubkeys[i] = LastAuthorities[i]

\* C2 witness: a record for three authorities of which one did not sign, the
\* signers voting in another order than the authority set lists them.
C2_Witness ==
    /\ last.outcome = "persisted"
    /\ LastHeader.number = BLOCK_SAVE_INTERVAL
    /\ Len(LastAuthorities) = 3
    /\ Cardinality(DistinctValidSigners(LastJustification, LastMessage)) = 2
    /\ LastJustification.commit.precommits[1].id = LastAuthorities[3]
    /\ LastJustification.commit.precommits[2].id = LastAuthorities[1]

\* C3: in every persisted record, validator_signed[i] is true exactly when
\* authority i has a precommit whose signature verifies against the record's
\* signed_message, and then signatures[i] is the signature of the last such
\* precommit; otherwise signatures[i] is the placeholder DUMMY_SIGNATURE.
C3_SignedFlagsAndSignatures ==
    last.outcome = "persisted" =>
        \A i \in 1..Len(LastAuthorities) :
            LET votes == ValidVotesOf(LastJustification, LastRecord.signed_message,
                                      LastAuthorities[i])
            IN  IF votes # {}
                THEN /\ LastRecord.validator_signed[i] = TRUE
                     /\ LastRecord.signatures[i] =
                            LastJustification.commit.precommits[Greatest(votes)].signature
                ELSE /\ LastRecord.validator_signed[i] = FALSE
                     /\ LastRecord.signatures[i] = DUMMY_SIGNATURE

\* C3 witness: a record in which one authority signed twice with two different
\* valid signatures and another authority did not sign.
C3_Witness ==
    /\ last.outcome = "persisted"
    /\ LastHeader.number = BLOCK_SAVE_INTERVAL
    /\ \E i \in 1..Len(LastAuthorities) :
          /\ ValidVotesOf(LastJustification, LastMessage, LastAuthorities[i]) = {1, 2}
          /\ LastJustification.commit.precommits[1].signature #
                LastJustification.commit.precommits[2].signature
    /\ \E i \in 1..Len(LastAuthorities) : ~LastRecord.validator_signed[i]

\* C4: a record is persisted only if the hash of the fetched header equals both
\* the justification's target_hash and the recomputed hash of the header bytes.
C4_PersistedOnlyIfHashesAgree ==
    last.outcome = "persisted" =>
        /\ LastHeader.hash = LastJustification.commit.target_hash
        /\ LastHeader.hash = LastHeader.encoded_hash

\* C5: a justification whose target_number is no multiple of BLOCK_SAVE_INTERVAL
\* causes no header fetch, quorum check or append, and every record in the store
\* has a block_number that is a multiple of BLOCK_SAVE_INTERVAL.
C5_StoreOnCadence ==
    /\ (last.justification # <<>>
          /\ LastJustification.commit.target_number % BLOCK_SAVE_INTERVAL # 0)
       => (last.header = <<>> /\ last.authorities = <<>> /\ last.outcome # "persisted")
    /\ \A i \in 1..Len(store) : store[i].block_number % BLOCK_SAVE_INTERVAL = 0

\* C6: a justification whose precommits list is empty is dropped as an ordinary
\* result: nothing is persisted and the pipeline does not abort.
C6_EmptyCommitIsDropped ==
    (last.authority_set_id # <<>> /\ Len(LastJustification.commit.precommits) = 0)
        => (pc # "panicked" /\ last.outcome # "persisted")

\* C7: a skip for cadence, header mismatch or quorum failure leaves the pipeline
\* waiting for the next justification, which it persists if it qualifies; the
\* pipeline shuts down when the stream ends.
C7_SkipKeepsSubscription ==
    /\ [][(remaining' # remaining /\ last'.outcome \in Skips) => pc' = "waiting"]_vars
    /\ []((pc = "waiting" /\ remaining > 0 /\ last.outcome \in Skips)
            => ENABLED Persist)
    /\ [][(remaining' = remaining /\ pc' # pc) => (pc = "waiting" /\ pc' = "done")]_vars

\* C7 witness: a record was persisted for an event that followed a skipped one.
C7_Witness ==
    /\ pc = "waiting"
    /\ last.outcome = "persisted"
    /\ LastHeader.number = BLOCK_SAVE_INTERVAL
    /\ MaxEvents - remaining = 2
    /\ Len(store) = 1

\* C8: an event dropped for header mismatch or missing quorum leaves an
\* observable trace (a log line) that an event skipped by the cadence filter
\* does not leave.
C8_DropsDifferFromCadenceSkip ==
    [][remaining' # remaining =>
          /\ last'.outcome = "cadence_skip" => (log' = log /\ store' = store)
          /\ last'.outcome \in ErrorDrops => (log' # log /\ store' = store)]_vars

\* C8 witness: after a cadence skip and an error drop the log holds one line.
C8_Witness ==
    /\ last.outcome \in ErrorDrops
    /\ MaxEvents - remaining = 2
    /\ Len(log) = 1

\* A u32 as <<high limb, low limb>>.
U32Limbs(n) == <<n \div Limb, n % Limb>>

\* C14: for a justification past the cadence and header checks, the authority
\* set is fetched at block target_number - 1, computed on u32 without underflow
\* or wrap-around, also for target_number = 0.
C14_AuthoritiesAtTargetMinusOne ==
    (last.justification # <<>>
       /\ last.outcome \in {"quorum_skip", "persisted", "panic_subtract_overflow"})
    => /\ last.outcome # "panic_subtract_overflow"
       /\ LastJustification.commit.target_number - 1 >= 0
       /\ last.authorities_at =
              <<U32Limbs(LastJustification.commit.target_number - 1)>>

\* ========================================== claims: commitment circuit ====
Proved == circuit.phase \in {"accepted", "rejected"}

\* The chained hash as claimed: h[0] = H(a[0]); h[i] = H(h[i-1] || a[i]) if
\* i < active_count, else h[i-1] (indices from 0).
RECURSIVE ClaimedChain(_, _, _)
ClaimedChain(i, active_count, authorities) ==
    IF i = 0
    THEN curta_sha256(<<authorities[1]>>)
    ELSE IF i < active_count
         THEN curta_sha256(<<ClaimedChain(i - 1, active_count, authorities),
                             authorities[i + 1]>>)
         ELSE ClaimedChain(i - 1, active_count, authorities)

Replaced(authorities, slot, key) == [authorities EXCEPT ![slot] = key]

\* C9: for every active_count <= MAX the circuit accepts exactly the digest
\* h[MAX-1]; replacing the key of an active slot makes that digest rejected and
\* replacing the key of a padding slot does not change the verdict.
C9_AcceptsExactlyClaimedChain ==
    Proved =>
        LET active  == circuit.num_active_authorities
            digest  == circuit.authority_set_commitment
            signers == circuit.authority_set_signers
            claimed == ClaimedChain(MaxNumAuthorities - 1, active, signers)
        IN  /\ (circuit.phase = "accepted") <=> (digest = claimed)
            /\ \A slot \in 1..MaxNumAuthorities :
                \A key \in Keys \ {signers[slot]} :
                  IF slot - 1 < active
                  THEN ~verify_authority_set_commitment(
                            active, claimed, Replaced(signers, slot, key))
                  ELSE verify_authority_set_commitment(
                            active, digest, Replaced(signers, slot, key))
                         = (circuit.phase = "accepted")

\* C10: the circuit rejects num_active_authorities = 0 whatever the digest, so 0
\* never shares an accepted digest with an active count >= 1.
C10_ZeroActiveRejected ==
    (Proved /\ circuit.num_active_authorities = 0) => circuit.phase = "rejected"


\* ======================================== claims: justification bridge ====
Hinted == bridge.phase \in {"hint_panicked", "hint_done", "accepted", "rejected"}
Response == bridge.response[1]
FlaggedCount == Cardinality({i \in Slots : bridge.output_stream[2][i]})

\* C11: when the fetched response carries another authority_set_id than the
\* request, the hint fails as a whole and delivers no value; and whenever values
\* are delivered, they are the response's own (its set id is the requested one)
\* and one (pubkey, signed message, signature) triple of it was verified first.
C11_MismatchFailsAndSpotCheckFirst ==
    Hinted =>
        /\ Response.authority_set_id # bridge.request.authority_set_id
               => (bridge.phase = "hint_panicked" /\ bridge.output_stream = <<>>)
        /\ bridge.output_stream # <<>>
               => /\ Response.authority_set_id = bridge.request.authority_set_id
                  /\ spot_check_triple(Response) \in bridge.checked
                  /\ verify(Response.signatures[1], Response.signed_message,
                            compress_point(Response.pubkeys[1]))
                  /\ bridge.output_stream[1] = Response.signed_message

C11_Witness ==
    /\ bridge.phase = "hint_panicked"
    /\ Response.authority_set_id = OtherSetId
    /\ bridge.request.authority_set_id # OtherSetId
    /\ bridge.output_stream = <<>>

\* C12: verify_simple_justification accepts a response only if the pubkeys match
\* the authority-set commitment, every flagged signature verifies, and the
\* number n of flagged authorities satisfies 3 * n >= 2 * num_active_authorities.
C12_AcceptedOnlyWithQuorum ==
    bridge.phase = "accepted" =>
        /\ verify_authority_set_commitment(
               bridge.output_stream[5], bridge.request.authority_set_hash,
               [i \in Slots |-> compress_point(bridge.output_stream[4][i])])
        /\ \A i \in Slots :
               bridge.output_stream[2][i]
                   => verify(bridge.output_stream[3][i], bridge.output_stream[1],
                             compress_point(bridge.output_stream[4][i]))
        /\ 3 * FlaggedCount >= 2 * bridge.output_stream[5]

\* C13: a hint that fails at any step has written nothing to the output stream,
\* and a hint that succeeds has written exactly the five values.
C13_FailedHintWroteNothing ==
    /\ bridge.phase = "hint_panicked" => bridge.output_stream = <<>>
    /\ bridge.phase = "hint_done" => bridge.output_stream = written_by_hint(Response)

\* C15: verify_simple_justification accepts only when the signed message commits
\* to the block_hash, block_number and authority_set_id it was called with.
C15_AcceptedMessageCommitsToRequest ==
    bridge.phase = "accepted" =>
        \E round \in Rounds :
            bridge.output_stream[1] =
                EncodeMessage(PrecommitOf(bridge.request.block_hash,
                                          bridge.request.block_number),
                              round, bridge.request.authority_set_id)
====
